---- MODULE Spec2Model ----
(***************************************************************************)
(* A model of limiter/memory/memory.go: the in-memory Limiter that runs a  *)
(* processor once per age per tracked key, its seen map guarded by m.mu,   *)
(* the state file written by writeCache and read back by readCache, the    *)
(* cacher, scrubber and promUpdater goroutines and their return when the   *)
(* context is cancelled.                                                   *)
(*                                                                         *)
(* Time is the wall clock read by time.Now(), counted in units of ten      *)
(* minutes, so that the fixed 10 * time.Minute of scrub and readCache is   *)
(* one unit.  Several steps may read the same clock value.                 *)
(***************************************************************************)
EXTENDS Integers, Sequences, FiniteSets, TLC

\* ------------------------------------------------------------------ bounds
\* The clock runs over 0..MaxTime.
MaxTime == 3
\* The configured age (the window) ranges over 0..MaxAge.
MaxAge == 1
\* Number of goroutines of the pipeline that call ProcessAndRecord.
NumWorkers == 2
\* The callbacks of a process fail at most MaxErrors times while a key is set.
MaxErrors == 1

\* 10 * time.Minute, in clock units (memory.go:166 and memory.go:277).
TenMinutes == 1

Workers == 1..NumWorkers
Time == 0..MaxTime

\* ------------------------------------------------------------------ values
\* What gjson.GetBytes(msg.Data, m.key).String() yields for the messages of
\* the model: "" when the path is absent or unset, otherwise the string.
Values == {"", "a"}

\* A key holding a byte that is not valid UTF-8 (gjson returns the raw bytes
\* of an unescaped string), and the key made of the replacement rune U+FFFD.
InvalidKey == "<ff>"
ReplacementKey == "<fffd>"

\* Every key string of the model, in bytewise order (the order in which
\* encoding/json writes the keys of a map).
KeyOrder == <<"", "a", "b", ReplacementKey, InvalidKey>>
Keys == {KeyOrder[i] : i \in 1..Len(KeyOrder)}

\* The empty map, make(map[string]time.Time).
EmptyMap == [k \in {} |-> 0]

\* delete(m, k) for every k outside keep.
Restrict(m, keep) == [k \in (DOMAIN m) \cap keep |-> m[k]]

\* m[k] = t.
Put(m, k, t) == [x \in (DOMAIN m) \cup {k} |-> IF x = k THEN t ELSE m[x]]

\* ------------------------------------------------------------- the decision
\* A slip in the comparison: t is not later than u.
NotAfter(t, u) == t <= u

\* time.Time.Before: t is strictly earlier than u.
Before(t, u) == t < u

\* A slip: the empty value is looked up like any other.
shouldProcessNoEmptyCheck(m, v, clock, a) ==
    IF v \notin DOMAIN m THEN TRUE
    ELSE Before(m[v], clock - a)

\* A slip: a value that is not in the map is skipped.
shouldProcessSkipsUnseen(m, v, clock, a) ==
    IF v = "" THEN TRUE
    ELSE IF v \notin DOMAIN m THEN FALSE
    ELSE Before(m[v], clock - a)

\* shouldProcess (memory.go:119-141), on the map and the clock it reads.
shouldProcess(m, v, clock, a) ==
    IF v = "" THEN TRUE
    ELSE IF v \notin DOMAIN m THEN TRUE
    ELSE Before(m[v], clock - a)

\* A slip: killtime is the start of the window, without the ten minutes.
ScrubbedWindowOnly(m, clock, a) ==
    LET killtime == clock - a
    IN Restrict(m, {k \in DOMAIN m : ~Before(m[k], killtime)})

\* A slip: the ten minutes are added to killtime, not subtracted.
ScrubbedGraceAdded(m, clock, a) ==
    LET killtime == (clock - a) + TenMinutes
    IN Restrict(m, {k \in DOMAIN m : ~Before(m[k], killtime)})

\* The loop of scrub (memory.go:277-283) and of readCache (memory.go:166-172):
\* every entry earlier than killtime is deleted.
Scrubbed(m, clock, a) ==
    LET killtime == (clock - a) - TenMinutes
    IN Restrict(m, {k \in DOMAIN m : ~Before(m[k], killtime)})

\* ------------------------------------------------------------ the encoding
\* encoding/json: a string is coerced to valid UTF-8 when it is written,
\* invalid bytes becoming U+FFFD; this holds for the keys of a map as well.
ToValidUTF8(k) == IF k = InvalidKey THEN ReplacementKey ELSE k

\* time.Time.MarshalJSON writes the instant as RFC 3339 text; of that text
\* the model keeps the hours and the minutes.
FormatTime(t) == [hh |-> t \div 6, mm |-> (t % 6) * 10]

\* A slip: the time is read in a zone one hour ahead.
ParseTimeHourAhead(x) == (x.hh + 1) * 6 + x.mm \div 10

\* time.Time.UnmarshalJSON.
ParseTime(x) == x.hh * 6 + x.mm \div 10

\* The JSON text as a sequence of tokens: the braces and one token a member.
OpenBrace == [tok |-> "{", k |-> "", hh |-> 0, mm |-> 0]
CloseBrace == [tok |-> "}", k |-> "", hh |-> 0, mm |-> 0]
Member(k, t) == [tok |-> "member", k |-> k, hh |-> FormatTime(t).hh, mm |-> FormatTime(t).mm]

RECURSIVE MarshalFrom(_, _)
MarshalFrom(m, i) ==
    IF i > Len(KeyOrder) THEN <<>>
    ELSE (IF KeyOrder[i] \in DOMAIN m
          THEN <<Member(ToValidUTF8(KeyOrder[i]), m[KeyOrder[i]])>>
          ELSE <<>>) \o MarshalFrom(m, i + 1)

\* json.Marshal(m.seen) (memory.go:187): the members in the order of the raw
\* keys, each key coerced as it is written.
Marshal(m) == <<OpenBrace>> \o MarshalFrom(m, 1) \o <<CloseBrace>>

\* The syntax check json.Unmarshal makes before it stores anything.
ValidJSON(d) ==
    /\ Len(d) >= 2
    /\ d[1] = OpenBrace
    /\ d[Len(d)] = CloseBrace
    /\ \A i \in 2..(Len(d) - 1) : d[i].tok = "member"

RECURSIVE DecodeFrom(_, _, _)
DecodeFrom(d, i, m) ==
    IF i > Len(d) - 1 THEN m
    ELSE DecodeFrom(d, i + 1, Put(m, d[i].k, ParseTime(d[i])))

\* json.Unmarshal(d, &m.seen) (memory.go:161) on valid text: every member is
\* stored in the map, a later duplicate of a key replacing an earlier one.
Unmarshal(d, m) == DecodeFrom(d, 2, m)

\* A file of the state directory: whether it exists and what it holds.
NoFile == [exists |-> FALSE, data |-> <<>>]
FileOf(d) == [exists |-> TRUE, data |-> d]

\* ------------------------------------------------------------------- state
VARIABLES
    now,        \* the wall clock, what time.Now() returns
    up,         \* Configure has run and the process has not died since
    key,        \* m.key, the field path; "" disables the limiter
    age,        \* m.age, the window
    statefile,  \* m.statefile; "" when no state_dir is configured
    seen,       \* m.seen
    mu,         \* m.mu: "free" or who holds it
    pc,         \* per worker: where its ProcessAndRecord call stands
    value,      \* per worker: the local value
    process,    \* per worker: the local process
    fres,       \* per worker: what f returned to its last call
    ret,        \* per worker: what its last ProcessAndRecord call has returned
    cpc,        \* where the writeCache call of the cacher stands
    content,    \* the local content of writeCache
    tmp,        \* the temp file writeCache has created
    file,       \* the file at m.statefile
    readErr,    \* what the readCache call of Configure returned
    writeErr,   \* what the last writeCache call returned
    lastRec,    \* history: per non-empty value, the time of its last record
    snapStore,  \* history: m.seen as encoded by the last writeCache that renamed
    cancelled,  \* ctx.Done() is closed
    cacher,     \* where the cacher goroutine stands
    scrubber,   \* where the scrubber goroutine stands
    prom,       \* where the promUpdater goroutine stands
    gauge,      \* seenGauge of this limiter
    errCtr      \* errCtr of this limiter

vars == <<now, up, key, age, statefile, seen, mu, pc, value, process, fres, ret,
          cpc, content, tmp, writeErr, file, readErr, lastRec, snapStore,
          cancelled, cacher, scrubber, prom, gauge, errCtr>>

config == <<key, age, statefile>>
worker == <<pc, value, process, fres, ret>>
cacherv == <<cpc, content, tmp, writeErr>>
history == <<lastRec, snapStore>>
loops == <<cancelled, cacher, scrubber, prom>>
metrics == <<gauge, errCtr>>

StateFilePath == "state_dir/topic.json"

\* No call is in flight, no writeCache is running, nothing has happened yet.
Idle ==
    /\ mu = "free"
    /\ pc = [w \in Workers |-> "idle"]
    /\ process = [w \in Workers |-> FALSE]
    /\ fres = [w \in Workers |-> "none"]
    /\ ret = [w \in Workers |-> "none"]
    /\ cpc = "idle"
    /\ content = <<>>
    /\ tmp = NoFile
    /\ writeErr = "none"
    /\ file = NoFile
    /\ readErr = "none"
    /\ lastRec = EmptyMap
    /\ snapStore = EmptyMap
    /\ gauge = 0
    /\ errCtr = 0

\* No goroutine of the limiter has been started.
Stopped ==
    /\ cancelled = FALSE
    /\ cacher = "off"
    /\ scrubber = "off"
    /\ prom = "off"

\* The goroutines Configure starts are in their loops; the cacher has
\* returned at once when there is no state file (memory.go:227-230).
Running ==
    /\ cancelled = FALSE
    /\ cacher = (IF statefile = "" THEN "done" ELSE "run")
    /\ scrubber = "run"
    /\ prom = "run"

\* The Limiter before Configure: nothing is running and no state file exists.
\* The configuration is whatever the loader supplies.
Init ==
    /\ now = 0
    /\ up = FALSE
    /\ key \in {"", "id"}
    /\ age \in 0..MaxAge
    /\ statefile \in {"", StateFilePath}
    /\ seen = EmptyMap
    /\ value = [w \in Workers |-> ""]
    /\ Idle
    /\ Stopped

\* The clock advances.
Tick ==
    /\ now < MaxTime
    /\ now' = now + 1
    /\ UNCHANGED <<up, config, loops, metrics, seen, mu, worker, cacherv,
                   file, readErr, history>>

\* ---------------------------------------------------------------- Configure
\* A slip: the file is read and parsed before the map is found not empty.
readCacheReadsFirst(m, sf, f, readOK, clock, a) ==
    IF sf = "" THEN [seen |-> m, err |-> "nil"]
    ELSE IF ~f.exists \/ ~readOK THEN [seen |-> m, err |-> "read"]
    ELSE IF ~ValidJSON(f.data) THEN [seen |-> m, err |-> "unmarshal"]
    ELSE IF Cardinality(DOMAIN m) > 0 THEN [seen |-> m, err |-> "not empty"]
    ELSE [seen |-> Scrubbed(Unmarshal(f.data, m), clock, a), err |-> "nil"]

\* A slip: a state file that does not exist is not an error.
readCacheAbsentOK(m, sf, f, readOK, clock, a) ==
    IF sf = "" THEN [seen |-> m, err |-> "nil"]
    ELSE IF Cardinality(DOMAIN m) > 0 THEN [seen |-> m, err |-> "not empty"]
    ELSE IF ~f.exists THEN [seen |-> m, err |-> "nil"]
    ELSE IF ~readOK THEN [seen |-> m, err |-> "read"]
    ELSE IF ~ValidJSON(f.data) THEN [seen |-> m, err |-> "unmarshal"]
    ELSE [seen |-> Scrubbed(Unmarshal(f.data, m), clock, a), err |-> "nil"]

\* readCache (memory.go:143-177) as a function of the map it is called on and
\* of the state file; readOK is whether ioutil.ReadFile can read a file that
\* exists.  It yields the map it leaves and the error it returns.
readCache(m, sf, f, readOK, clock, a) ==
    IF sf = "" THEN [seen |-> m, err |-> "nil"]
    ELSE IF Cardinality(DOMAIN m) > 0 THEN [seen |-> m, err |-> "not empty"]
    ELSE IF ~f.exists \/ ~readOK THEN [seen |-> m, err |-> "read"]
    ELSE IF ~ValidJSON(f.data) THEN [seen |-> m, err |-> "unmarshal"]
    ELSE [seen |-> Scrubbed(Unmarshal(f.data, m), clock, a), err |-> "nil"]

\* Configure (memory.go:64-87): a fresh map, readCache, and the goroutines
\* start; the cacher returns at once when there is no state file
\* (memory.go:227-230).  The error of readCache is dropped.
Configure ==
    /\ ~up
    /\ \E readOK \in BOOLEAN :
         LET r == readCache(EmptyMap, statefile, file, readOK, now, age)
         IN /\ seen' = r.seen
            /\ readErr' = r.err
    /\ up' = TRUE
    /\ cancelled' = FALSE
    /\ cacher' = (IF statefile = "" THEN "done" ELSE "run")
    /\ scrubber' = "run"
    /\ prom' = "run"
    /\ UNCHANGED <<now, config, metrics, mu, worker, cacherv, file, history>>

\* readCache called on the map of a running limiter, whatever it holds.
ReadCacheCall ==
    /\ up
    /\ mu = "free"
    /\ \E readOK \in BOOLEAN :
         LET r == readCache(seen, statefile, file, readOK, now, age)
         IN /\ seen' = r.seen
            /\ readErr' = r.err
    /\ UNCHANGED <<now, up, config, loops, metrics, mu, worker, cacherv,
                   file, history>>

\* The process dies, at any point: its memory is gone, the files stay.
Crash ==
    /\ up
    /\ up' = FALSE
    /\ seen' = EmptyMap
    /\ mu' = "free"
    /\ pc' = [w \in Workers |-> "idle"]
    /\ value' = [w \in Workers |-> ""]
    /\ process' = [w \in Workers |-> FALSE]
    /\ fres' = [w \in Workers |-> "none"]
    /\ ret' = [w \in Workers |-> "none"]
    /\ cpc' = "idle"
    /\ content' = <<>>
    /\ tmp' = NoFile
    /\ writeErr' = "none"
    /\ readErr' = "none"
    /\ cancelled' = FALSE
    /\ cacher' = "off"
    /\ scrubber' = "off"
    /\ prom' = "off"
    /\ gauge' = 0
    /\ errCtr' = 0
    /\ UNCHANGED <<now, config, file, history>>

\* --------------------------------------------------------- ProcessAndRecord
\* ProcessAndRecord returns r: its locals are gone.
Return(w, r) ==
    /\ pc' = [pc EXCEPT ![w] = "idle"]
    /\ value' = [value EXCEPT ![w] = ""]
    /\ process' = [process EXCEPT ![w] = FALSE]
    /\ ret' = [ret EXCEPT ![w] = r]

\* A slip: m.mu, taken by shouldProcess, is not released before f is called.
EnterHoldsLock(w, v) ==
    /\ up
    /\ pc[w] = "idle"
    /\ IF key = ""
       THEN /\ process' = [process EXCEPT ![w] = TRUE]
            /\ value' = value
            /\ mu' = mu
       ELSE /\ v = "" \/ mu = "free"
            /\ value' = [value EXCEPT ![w] = v]
            /\ process' = [process EXCEPT ![w] = shouldProcess(seen, v, now, age)]
            /\ mu' = IF v = "" THEN mu ELSE "call"
    /\ pc' = [pc EXCEPT ![w] = "callback"]
    /\ fres' = [fres EXCEPT ![w] = "none"]
    /\ ret' = [ret EXCEPT ![w] = "none"]
    /\ UNCHANGED <<now, up, config, loops, metrics, seen, cacherv, file,
                   readErr, history>>

\* A worker enters ProcessAndRecord with a message whose field is v and comes
\* to call f (memory.go:89-104).  With an empty key it calls f(msg, true) at
\* once; otherwise process := m.shouldProcess(value), which takes m.mu unless
\* the value is empty.
Enter(w, v) ==
    /\ up
    /\ pc[w] = "idle"
    /\ IF key = ""
       THEN /\ process' = [process EXCEPT ![w] = TRUE]
            /\ value' = value
       ELSE /\ v = "" \/ mu = "free"
            /\ value' = [value EXCEPT ![w] = v]
            /\ process' = [process EXCEPT ![w] = shouldProcess(seen, v, now, age)]
    /\ pc' = [pc EXCEPT ![w] = "callback"]
    /\ fres' = [fres EXCEPT ![w] = "none"]
    /\ ret' = [ret EXCEPT ![w] = "none"]
    /\ UNCHANGED <<now, up, config, loops, metrics, seen, mu, cacherv, file,
                   readErr, history>>

\* A slip: the record step is taken whatever the decision was.
CallbackOKRecordsSuppressed(w) ==
    /\ pc[w] = "callback"
    /\ fres' = [fres EXCEPT ![w] = "nil"]
    /\ IF key # ""
       THEN /\ pc' = [pc EXCEPT ![w] = "record"]
            /\ UNCHANGED <<value, process, ret>>
       ELSE Return(w, "nil")
    /\ UNCHANGED <<now, up, config, loops, metrics, seen, mu, cacherv, file,
                   readErr, history>>

\* A slip: the record step is taken although the key is empty.
CallbackOKNoBypass(w) ==
    /\ pc[w] = "callback"
    /\ fres' = [fres EXCEPT ![w] = "nil"]
    /\ IF process[w]
       THEN /\ pc' = [pc EXCEPT ![w] = "record"]
            /\ UNCHANGED <<value, process, ret>>
       ELSE Return(w, "nil")
    /\ UNCHANGED <<now, up, config, loops, metrics, seen, mu, cacherv, file,
                   readErr, history>>

\* f returns nil (memory.go:92 and memory.go:104-116).
CallbackOK(w) ==
    /\ pc[w] = "callback"
    /\ fres' = [fres EXCEPT ![w] = "nil"]
    /\ IF key # "" /\ process[w]
       THEN /\ pc' = [pc EXCEPT ![w] = "record"]
            /\ UNCHANGED <<value, process, ret>>
       ELSE Return(w, "nil")
    /\ UNCHANGED <<now, up, config, loops, metrics, seen, mu, cacherv, file,
                   readErr, history>>

\* A slip: the value is recorded although f failed.
CallbackFailRecords(w) ==
    /\ pc[w] = "callback"
    /\ fres' = [fres EXCEPT ![w] = "err"]
    /\ key = "" \/ errCtr < MaxErrors
    /\ Return(w, "err")
    /\ errCtr' = IF key = "" THEN errCtr ELSE errCtr + 1
    /\ seen' = IF key # "" /\ process[w] THEN Put(seen, value[w], now) ELSE seen
    /\ UNCHANGED <<now, up, config, loops, gauge, mu, cacherv, file, readErr,
                   history>>

\* f returns an error (memory.go:92 and memory.go:104-108): the call returns
\* it, after errCtr.Inc() unless the key is empty.
CallbackFail(w) ==
    /\ pc[w] = "callback"
    /\ key = "" \/ errCtr < MaxErrors
    /\ fres' = [fres EXCEPT ![w] = "err"]
    /\ Return(w, "err")
    /\ errCtr' = IF key = "" THEN errCtr ELSE errCtr + 1
    /\ UNCHANGED <<now, up, config, loops, gauge, seen, mu, cacherv, file,
                   readErr, history>>

\* A slip: the record replaces the map by one that holds this entry alone.
RecordAlone(w) ==
    /\ pc[w] = "record"
    /\ mu = "free"
    /\ seen' = Put(EmptyMap, value[w], now)
    /\ lastRec' = IF value[w] = "" THEN lastRec ELSE Put(lastRec, value[w], now)
    /\ Return(w, "nil")
    /\ UNCHANGED <<now, up, config, loops, metrics, mu, fres, cacherv, file,
                   readErr, snapStore>>

\* m.seen[value] = time.Now() under m.mu (memory.go:110-116).
Record(w) ==
    /\ pc[w] = "record"
    /\ mu = "free"
    /\ seen' = Put(seen, value[w], now)
    /\ lastRec' = IF value[w] = "" THEN lastRec ELSE Put(lastRec, value[w], now)
    /\ Return(w, "nil")
    /\ UNCHANGED <<now, up, config, loops, metrics, mu, fres, cacherv, file,
                   readErr, snapStore>>

\* ------------------------------------------------------------------- scrub
\* The scrubber receives from its ticker and goes on to call scrub
\* (memory.go:286-292).
ScrubberTick ==
    /\ up
    /\ scrubber = "run"
    /\ scrubber' = "scrub"
    /\ UNCHANGED <<now, up, config, cancelled, cacher, prom, metrics, seen, mu,
                   worker, cacherv, file, readErr, history>>

\* scrub runs under m.mu and the scrubber is back at its select
\* (memory.go:273-284).
Scrub ==
    /\ up
    /\ scrubber = "scrub"
    /\ mu = "free"
    /\ seen' = Scrubbed(seen, now, age)
    /\ scrubber' = "run"
    /\ UNCHANGED <<now, up, config, cancelled, cacher, prom, metrics, mu,
                   worker, cacherv, file, readErr, history>>

\* The scrubber receives from ctx.Done() and returns (memory.go:293-295).
ScrubberExit ==
    /\ up
    /\ cancelled
    /\ scrubber = "run"
    /\ scrubber' = "done"
    /\ UNCHANGED <<now, up, config, cancelled, cacher, prom, metrics, seen, mu,
                   worker, cacherv, file, readErr, history>>

\* ------------------------------------------------------------- promUpdater
\* The ticker of promUpdater fires: seenGauge is set to len(m.seen) under
\* m.mu (memory.go:255-266).
PromUpdate ==
    /\ up
    /\ prom = "run"
    /\ mu = "free"
    /\ gauge' = Cardinality(DOMAIN seen)
    /\ UNCHANGED <<now, up, config, loops, errCtr, seen, mu, worker, cacherv,
                   file, readErr, history>>

\* promUpdater receives from ctx.Done() and returns (memory.go:267-269).
PromExit ==
    /\ up
    /\ cancelled
    /\ prom = "run"
    /\ prom' = "done"
    /\ UNCHANGED <<now, up, config, cancelled, cacher, scrubber, metrics, seen,
                   mu, worker, cacherv, file, readErr, history>>

\* ------------------------------------------------------------------ cancel
\* The context the limiter was configured with is cancelled.
Cancel ==
    /\ up
    /\ ~cancelled
    /\ cancelled' = TRUE
    /\ UNCHANGED <<now, up, config, cacher, scrubber, prom, metrics, seen, mu,
                   worker, cacherv, file, readErr, history>>

\* -------------------------------------------------------------- writeCache
\* The cacher, back from the writeCache it called on ctx.Done(), returns;
\* back from any other it is at its select again (memory.go:240-251).
CacherNext == IF cacher = "flush" THEN "done" ELSE cacher

\* writeCache returns e (the deferred Unlock runs).  The temp file of a call
\* that fails stays in the directory under a name no later call uses; the
\* model drops it.
WriteCacheReturn(e) ==
    /\ cpc' = "idle"
    /\ content' = <<>>
    /\ tmp' = NoFile
    /\ mu' = "free"
    /\ writeErr' = e
    /\ cacher' = CacherNext

\* A slip: the cacher returns on ctx.Done() without a last writeCache.
CacherDoneNoFlush ==
    /\ up
    /\ cancelled
    /\ cacher = "run"
    /\ cpc = "idle"
    /\ cacher' = "done"
    /\ UNCHANGED <<now, up, config, cancelled, scrubber, prom, metrics, seen, mu,
                   worker, cacherv, file, readErr, history>>

\* The cacher receives from ctx.Done() and goes on to call writeCache a last
\* time (memory.go:246-250).
CacherDone ==
    /\ up
    /\ cancelled
    /\ cacher = "run"
    /\ cpc = "idle"
    /\ cacher' = "flush"
    /\ UNCHANGED <<now, up, config, cancelled, scrubber, prom, metrics, seen,
                   mu,
                   worker, cacherv, file, readErr, history>>

\* The cacher runs only with a state file (memory.go:227-230); it calls
\* writeCache when its ticker fires and once more on ctx.Done(), and
\* writeCache takes m.mu (memory.go:179-185).  Nothing is written for an
\* empty map.
WriteCacheEmpty ==
    /\ up /\ statefile # "" /\ cpc = "idle" /\ mu = "free"
    /\ cacher \in {"run", "flush"}
    /\ Cardinality(DOMAIN seen) = 0
    /\ writeErr' = "nil"
    /\ cacher' = CacherNext
    /\ UNCHANGED <<now, up, config, cancelled, scrubber, prom, metrics, seen,
                   mu,
                   worker, cpc, content, tmp, file, readErr, history>>

\* A slip: an empty map is written like any other.
WriteCacheMarshalAlways ==
    /\ up /\ statefile # "" /\ cpc = "idle" /\ mu = "free"
    /\ cacher \in {"run", "flush"}
    /\ mu' = "cacher"
    /\ content' = Marshal(seen)
    /\ cpc' = "tempfile"
    /\ writeErr' = "none"
    /\ UNCHANGED <<now, up, config, loops, metrics, seen, worker, tmp, file,
                   readErr, history>>

\* content, err := json.Marshal(m.seen), under m.mu (memory.go:180-191).
WriteCacheMarshal ==
    /\ up /\ statefile # "" /\ cpc = "idle" /\ mu = "free"
    /\ cacher \in {"run", "flush"}
    /\ Cardinality(DOMAIN seen) > 0
    /\ mu' = "cacher"
    /\ content' = Marshal(seen)
    /\ cpc' = "tempfile"
    /\ writeErr' = "none"
    /\ UNCHANGED <<now, up, config, loops, metrics, seen, worker, tmp, file,
                   readErr, history>>

\* ioutil.TempFile(config.StateDirectory(), "memcache") (memory.go:193-197).
TempFileOK ==
    /\ cpc = "tempfile"
    /\ tmp' = FileOf(<<>>)
    /\ cpc' = "write"
    /\ UNCHANGED <<now, up, config, loops, metrics, seen, mu, worker,
                   content, writeErr, file,
                   readErr, history>>

TempFileFail ==
    /\ cpc = "tempfile"
    /\ WriteCacheReturn("err")
    /\ UNCHANGED <<now, up, config, cancelled, scrubber, prom, metrics, seen,
                   worker, file, readErr, history>>

\* tmpfile.Write(content) (memory.go:199-203).
WriteOK ==
    /\ cpc = "write"
    /\ tmp' = FileOf(content)
    /\ cpc' = "close"
    /\ UNCHANGED <<now, up, config, loops, metrics, seen, mu, worker,
                   content, writeErr, file,
                   readErr, history>>

\* A slip: the error of Write is not checked, and what was written of the
\* content goes on to be closed and renamed.
WriteFailIgnored ==
    /\ cpc = "write"
    /\ \E n \in 0..(Len(content) - 1) : tmp' = FileOf(SubSeq(content, 1, n))
    /\ cpc' = "close"
    /\ UNCHANGED <<now, up, config, loops, metrics, seen, mu, worker,
                   content, writeErr, file,
                   readErr, history>>

\* A failed Write has written fewer bytes than it was given; writeCache returns.
WriteFail ==
    /\ cpc = "write"
    /\ WriteCacheReturn("err")
    /\ UNCHANGED <<now, up, config, cancelled, scrubber, prom, metrics, seen,
                   worker, file, readErr, history>>

\* tmpfile.Close() (memory.go:205-209).
CloseOK ==
    /\ cpc = "close"
    /\ cpc' = "rename"
    /\ UNCHANGED <<now, up, config, loops, metrics, seen, mu, worker,
                   content, tmp, writeErr, file,
                   readErr, history>>

CloseFail ==
    /\ cpc = "close"
    /\ WriteCacheReturn("err")
    /\ UNCHANGED <<now, up, config, cancelled, scrubber, prom, metrics, seen,
                   worker, file, readErr, history>>

\* os.Rename(tmpfile.Name(), m.statefile) (memory.go:213-221).
RenameOK ==
    /\ cpc = "rename"
    /\ file' = tmp
    /\ snapStore' = seen
    /\ WriteCacheReturn("nil")
    /\ UNCHANGED <<now, up, config, cancelled, scrubber, prom, metrics, seen,
                   worker, readErr, lastRec>>

RenameFail ==
    /\ cpc = "rename"
    /\ WriteCacheReturn("err")
    /\ UNCHANGED <<now, up, config, cancelled, scrubber, prom, metrics, seen,
                   worker, file, readErr, history>>

\* -------------------------------------------------------------------- Spec
\* The steps of the calls in flight, whoever made them.
CallStep ==
    \/ \E w \in Workers : CallbackOK(w)
    \/ \E w \in Workers : CallbackFail(w)
    \/ \E w \in Workers : Record(w)

\* The steps of writeCache, run by the cacher.
CacherStep ==
    \/ WriteCacheEmpty
    \/ WriteCacheMarshal
    \/ TempFileOK
    \/ TempFileFail
    \/ WriteOK
    \/ WriteFail
    \/ CloseOK
    \/ CloseFail
    \/ RenameOK
    \/ RenameFail

\* The limiter, its pipeline delivering the messages one at a time: the
\* calls of one goroutine, the scrubber, the cacher, the clock, and the
\* process dying and being configured again over the files it left.
\* promUpdater, which only reads the map, and the cancellation of the context
\* are part of SpecLocking and SpecShutdown.
Next ==
    \/ Tick
    \/ Configure
    \/ Crash
    \/ \E v \in Values : Enter(1, v)
    \/ CallStep
    \/ ScrubberTick
    \/ Scrub
    \/ CacherStep

Spec == Init /\ [][Next]_vars

\* The limiter without a state directory, every worker of the pipeline
\* calling ProcessAndRecord concurrently.
InitPipeline == Init /\ statefile = ""

NextPipeline ==
    \/ Tick
    \/ Configure
    \/ Crash
    \/ \E w \in Workers, v \in Values : Enter(w, v)
    \/ CallStep
    \/ ScrubberTick
    \/ Scrub

SpecPipeline == InitPipeline /\ [][NextPipeline]_vars

\* A configured limiter with an empty map, each worker holding one message,
\* the fields of the messages pairwise distinct; every worker makes its one
\* call, f succeeds, and the clock may advance in between.
InitDistinct ==
    /\ now = 0
    /\ up = TRUE
    /\ key = "id"
    /\ age \in 0..MaxAge
    /\ statefile = ""
    /\ seen = EmptyMap
    /\ value \in {g \in [Workers -> Keys] :
                    \A w1, w2 \in Workers : w1 # w2 => g[w1] # g[w2]}
    /\ Idle
    /\ Running

EnterOnce(w) == ret[w] = "none" /\ Enter(w, value[w])

NextDistinct ==
    \/ Tick
    \/ \E w \in Workers : EnterOnce(w)
    \/ \E w \in Workers : CallbackOK(w)
    \/ \E w \in Workers : Record(w)

SpecDistinct == InitDistinct /\ [][NextDistinct]_vars

\* The keys of the maps the round trip starts from.
RoundTripKeys == {"", "a", InvalidKey}

\* A configured limiter with a state directory whose map is any non-empty map
\* of timestamps up to the present; writeCache runs without I/O errors, the
\* clock advances, the process ends and is configured again.
InitRoundTrip ==
    /\ now \in Time
    /\ up = TRUE
    /\ key = "id"
    /\ age \in 0..MaxAge
    /\ statefile = StateFilePath
    /\ seen \in UNION {[D -> 0..now] : D \in (SUBSET RoundTripKeys) \ {{}}}
    /\ value = [w \in Workers |-> ""]
    /\ Idle
    /\ Running

NextRoundTrip ==
    \/ Tick
    \/ WriteCacheMarshal
    \/ TempFileOK
    \/ WriteOK
    \/ CloseOK
    \/ RenameOK
    \/ Crash
    \/ Configure

SpecRoundTrip == InitRoundTrip /\ [][NextRoundTrip]_vars

\* The maps of timestamps up to t over the values of the messages.
Stores(t) == UNION {[D -> 0..t] : D \in SUBSET Values}

\* A running limiter whose map is any map of timestamps up to the present,
\* over a state directory that holds no state file, a snapshot of some map,
\* or a file cut short; readCache is called on it and the clock advances.
InitLoad ==
    /\ now \in Time
    /\ up = TRUE
    /\ key = "id"
    /\ age \in 0..MaxAge
    /\ statefile \in {"", StateFilePath}
    /\ seen \in Stores(now)
    /\ file \in {NoFile, FileOf(<<OpenBrace>>)}
                \cup {FileOf(Marshal(m)) : m \in Stores(now)}
    /\ value = [w \in Workers |-> ""]
    /\ mu = "free"
    /\ pc = [w \in Workers |-> "idle"]
    /\ process = [w \in Workers |-> FALSE]
    /\ fres = [w \in Workers |-> "none"]
    /\ ret = [w \in Workers |-> "none"]
    /\ cpc = "idle"
    /\ content = <<>>
    /\ tmp = NoFile
    /\ writeErr = "none"
    /\ readErr = "none"
    /\ lastRec = EmptyMap
    /\ snapStore = EmptyMap
    /\ gauge = 0
    /\ errCtr = 0
    /\ Running

NextLoad ==
    \/ Tick
    \/ ReadCacheCall

SpecLoad == InitLoad /\ [][NextLoad]_vars

\* A running limiter with a key and a state directory, its map any map of
\* timestamps up to the present, until the cancellation of its context and
\* after, at one reading of the clock: the calls of one goroutine whose f
\* succeeds, and the three goroutines of Configure.
InitShutdown ==
    /\ now = MaxTime
    /\ up = TRUE
    /\ key = "id"
    /\ age = MaxAge
    /\ statefile = StateFilePath
    /\ seen \in Stores(now)
    /\ value = [w \in Workers |-> ""]
    /\ Idle
    /\ Running

NextShutdown ==
    \/ \E v \in Values : Enter(1, v)
    \/ CallbackOK(1)
    \/ Record(1)
    \/ ScrubberTick
    \/ Scrub
    \/ ScrubberExit
    \/ CacherStep
    \/ CacherDone
    \/ PromUpdate
    \/ PromExit
    \/ Cancel

SpecShutdown == InitShutdown /\ [][NextShutdown]_vars

\* What the scheduling gives: a select whose ctx.Done() case is ready again
\* and again comes to take it (the choice among ready cases is uniformly
\* random), a goroutine that can run does, m.mu is granted to a waiter once
\* it stays free, and the file operations of writeCache return.
FairShutdown ==
    /\ SpecShutdown
    /\ SF_vars(ScrubberExit)
    /\ SF_vars(CacherDone)
    /\ WF_vars(PromExit)
    /\ WF_vars(Scrub)
    /\ WF_vars(CacherStep)

\* The limiter with a key and no state directory that runs on without
\* dying: the calls of the workers, the scrubber and the clock.
InitScrub == Init /\ key = "id" /\ statefile = ""

NextScrub ==
    \/ Tick
    \/ Configure
    \/ \E w \in Workers, v \in Values : Enter(w, v)
    \/ CallStep
    \/ ScrubberTick
    \/ Scrub

SpecScrub == InitScrub /\ [][NextScrub]_vars

\* A running limiter with a key and a state directory, at one reading of the
\* clock: every worker of the pipeline calls ProcessAndRecord while the
\* scrubber, the cacher and promUpdater go round their loops.
InitLocking ==
    /\ now = 0
    /\ up = TRUE
    /\ key = "id"
    /\ age = MaxAge
    /\ statefile = StateFilePath
    /\ seen = EmptyMap
    /\ value = [w \in Workers |-> ""]
    /\ Idle
    /\ Running

NextLocking ==
    \/ \E w \in Workers, v \in Values : Enter(w, v)
    \/ CallStep
    \/ ScrubberTick
    \/ Scrub
    \/ CacherStep
    \/ PromUpdate

SpecLocking == InitLocking /\ [][NextLocking]_vars

\* ------------------------------------------------------------------ claims
\* A step in which worker w comes to call f: its decision is taken.
Decides(w) == pc[w] = "idle" /\ pc'[w] = "callback"

\* C1: window rule.  A call for a non-empty value whose entry carries the
\* timestamp t0, decided at time t0 + d, passes process = FALSE to f when
\* d <= age and process = TRUE when d > age.
C1_WindowRule ==
    [][\A w \in Workers :
          (/\ Decides(w)
           /\ key # ""
           /\ value'[w] # ""
           /\ value'[w] \in DOMAIN seen)
          => (process'[w] <=> (now - seen[value'[w]] > age))]_vars

\* A call for "a" is passed process = TRUE over an entry of "a" that is older
\* than the window, the empty value having an entry of its own.
C1_Witness ==
    \E w \in Workers :
        /\ pc[w] = "callback" /\ value[w] = "a" /\ process[w]
        /\ "a" \in DOMAIN seen /\ now - seen["a"] > age
        /\ "" \in DOMAIN seen

\* C3: a call whose callback returns an error leaves the store as it was:
\* neither its decision nor the failure of f changes m.seen, and after the
\* failure the call returns the error without a record step.
C3_FailedCallbackKeepsStore ==
    [][\A w \in Workers :
          /\ Decides(w) => seen' = seen
          /\ (pc[w] = "callback" /\ fres'[w] = "err")
                => (seen' = seen /\ pc'[w] = "idle" /\ ret'[w] = "err")]_vars

\* With a key configured a call has returned the error of f, and the map
\* holds an entry of the empty string and none of "a".
C3_Witness ==
    \E w \in Workers :
        /\ key # "" /\ pc[w] = "idle" /\ ret[w] = "err"
        /\ "" \in DOMAIN seen /\ "a" \notin DOMAIN seen

\* C4: atomic state file.  The file at m.statefile is absent exactly as long
\* as no writeCache has renamed, and otherwise holds the complete encoding of
\* the map one writeCache encoded; it changes in no step but a successful
\* rename, whatever fails or dies in between.
C4_AtomicStateFile ==
    /\ [](IF file.exists
          THEN ValidJSON(file.data) /\ file.data = Marshal(snapStore)
          ELSE snapStore = EmptyMap)
    /\ [][file' # file
            => (cpc = "rename" /\ writeErr' = "nil" /\ file' = FileOf(Marshal(seen)))]_vars

\* A writeCache has written its temp file and not yet renamed it, over a
\* state file of other content.
C4_Witness ==
    /\ file.exists
    /\ cpc = "rename"
    /\ tmp.data # file.data

\* C7: bypass.  With an empty key every call passes process = TRUE to f,
\* returns what f returned right after f, and leaves m.seen alone.
C7_Bypass ==
    [][key = "" =>
          \A w \in Workers :
              /\ Decides(w) => (process'[w] /\ seen' = seen)
              /\ (pc[w] = "callback" /\ pc'[w] # "callback" /\ up')
                    => (/\ pc'[w] = "idle"
                        /\ fres'[w] # "none"
                        /\ ret'[w] = fres'[w]
                        /\ seen' = seen)]_vars

\* With an empty key a call has returned the error of f.
C7_Witness ==
    \E w \in Workers : key = "" /\ pc[w] = "idle" /\ ret[w] = "err"

\* C8: with a key, a call whose value is empty passes process = TRUE to f.
C8_EmptyValueProcesses ==
    \A w \in Workers :
        (key # "" /\ pc[w] = "callback" /\ value[w] = "") => process[w]

\* A call with an empty value is in f while the map holds an entry of the
\* empty string that is within the window.
C8_Witness ==
    \E w \in Workers :
        /\ key # "" /\ pc[w] = "callback" /\ value[w] = ""
        /\ "" \in DOMAIN seen /\ now - seen[""] <= age

\* C9: first sighting.  A call for a non-empty value that has no entry when
\* the decision is taken passes process = TRUE to f.
C9_FirstSighting ==
    [][\A w \in Workers :
          (/\ Decides(w)
           /\ key # ""
           /\ value'[w] # ""
           /\ value'[w] \notin DOMAIN seen)
          => process'[w]]_vars

\* A call for "a" is in f, decided over a map without "a", after "a" had been
\* recorded and written to the state file.
C9_Witness ==
    \E w \in Workers :
        /\ pc[w] = "callback" /\ value[w] = "a" /\ process[w]
        /\ "a" \notin DOMAIN seen
        /\ "a" \in DOMAIN lastRec
        /\ "a" \in DOMAIN snapStore

\* C10: the empty value is never recorded: m.seen has no entry whose key is
\* the empty string.
C10_EmptyValueNeverRecorded == "" \notin DOMAIN seen

\* C2: once per window per key.  When a call for a non-empty value is passed
\* process = TRUE while another call for the same value, passed process =
\* TRUE as well, is still in flight, more than the window separates the last
\* successful record of the value from this decision; two calls in flight
\* never both proceed on a value that was never recorded.
C2_OncePerWindow ==
    [][\A w1, w2 \in Workers :
          (/\ w1 # w2
           /\ key # ""
           /\ Decides(w1) /\ value'[w1] # "" /\ process'[w1]
           /\ pc[w2] \in {"callback", "record"}
           /\ value[w2] = value'[w1] /\ process[w2])
          => (/\ value'[w1] \in DOMAIN lastRec
              /\ now - lastRec[value'[w1]] > age)]_vars

Kept(m, clock, a) ==
    Restrict(m, {k \in DOMAIN m : m[k] >= (clock - a) - TenMinutes})

\* A step in which Configure has read and decoded the state file.
Loads == ~up /\ up' /\ file.exists /\ readErr' = "nil"

\* C6: persistence round trip.  The map a successful writeCache encoded, read
\* back into the empty map at time now, is the entries of that map whose
\* timestamp is not earlier than now - age - 10 minutes, timestamps unchanged.
C6_RoundTrip ==
    [][Loads => seen' = Kept(snapStore, now, age)]_vars

\* The same for the maps whose keys are all valid UTF-8.
RoundTripValidKeys ==
    [][(Loads /\ InvalidKey \notin DOMAIN snapStore)
          => seen' = Kept(snapStore, now, age)]_vars

\* A step that sets the timestamp of k: k gets an entry or its entry changes.
Stamps(k) ==
    /\ k \in DOMAIN seen'
    /\ k \notin DOMAIN seen \/ seen'[k] # seen[k]

\* C11: suppressed calls do not slide the window.  The step in which f
\* returns to a call decided process = FALSE, error or not, ends the call and
\* leaves every entry of the map as it was; and in a running limiter the
\* timestamp of a value is set only by the record step of a call for that
\* value that was decided process = TRUE and whose f returned nil, to the
\* time of that step.
C11_SuppressedCallsKeepStore ==
    [][/\ \A w \in Workers :
             (/\ up /\ up'
              /\ pc[w] = "callback" /\ ~process[w] /\ pc'[w] # "callback")
             => (seen' = seen /\ pc'[w] = "idle")
       /\ \A k \in Keys :
             (up /\ Stamps(k))
             => /\ seen'[k] = now
                /\ \E w \in Workers :
                      /\ pc[w] = "record" /\ pc'[w] = "idle"
                      /\ value[w] = k /\ process[w] /\ fres[w] = "nil"]_vars

\* A call for "a" was passed process = FALSE and is inside f, over an entry
\* of "a" recorded at an earlier time.
C11_Witness ==
    \E w \in Workers :
        /\ up /\ key # "" /\ pc[w] = "callback" /\ ~process[w] /\ value[w] = "a"
        /\ "a" \in DOMAIN seen /\ seen["a"] < now

\* A step in which Configure runs readCache with a state file configured that
\* does not exist.
LoadsAbsent == ~up /\ up' /\ statefile # "" /\ ~file.exists

\* C12 as stated: with a state directory configured and the state file
\* absent, readCache returns no error and leaves the map empty.
C12_AbsentFileNoError ==
    [][LoadsAbsent => (readErr' = "nil" /\ seen' = EmptyMap)]_vars

\* C12: with a state directory configured and the state file absent,
\* readCache returns the error of ioutil.ReadFile and leaves the map empty.
C12_AbsentFileReadError ==
    [][LoadsAbsent => (readErr' = "read" /\ seen' = EmptyMap)]_vars

\* The limiter runs with an empty map after a readCache that found no state
\* file and returned the read error.
C12_Witness ==
    /\ up /\ statefile # "" /\ ~file.exists
    /\ readErr = "read" /\ seen = EmptyMap

\* A step in which readCache, called on a running limiter, returns.
LoadReturns == up /\ up' /\ readErr' # readErr

\* C13 as stated: every readCache on a map that holds an entry returns the
\* error of a map that is not empty, before the file is read, and leaves the
\* map as it was.
C13_NonEmptyStoreRefusesLoad ==
    [][(LoadReturns /\ seen # EmptyMap)
       => (readErr' = "not empty" /\ seen' = seen)]_vars

\* C13: every readCache on a map that holds an entry leaves the map as it
\* was and reads no file; with a state directory configured it returns the
\* error of a map that is not empty, without one it returns nil.
C13_NonEmptyStoreKeptByLoad ==
    [][(LoadReturns /\ seen # EmptyMap)
       => /\ seen' = seen
          /\ readErr' = (IF statefile = "" THEN "nil" ELSE "not empty")]_vars

\* readCache has refused a map that holds an entry, over a state file that
\* holds a snapshot.
C13_Witness ==
    /\ up /\ statefile # "" /\ seen # EmptyMap /\ readErr = "not empty"
    /\ file.exists /\ ValidJSON(file.data)

\* A step of writeCache: it changes what writeCache works on or the state file.
WriteCacheStep ==
    <<cpc, content, tmp, writeErr, file>>' # <<cpc, content, tmp, writeErr, file>>

\* C14: a writeCache that finds the map empty returns nil at once: it
\* marshals nothing, creates no temp file, keeps neither the lock nor a
\* position, and the state file and the map stay exactly as they were.
C14_EmptyStoreSnapshotSkipped ==
    [][(up /\ up' /\ cpc = "idle" /\ seen = EmptyMap /\ WriteCacheStep)
       => /\ writeErr' = "nil"
          /\ cpc' = "idle" /\ content' = <<>> /\ tmp' = NoFile /\ mu' = mu
          /\ file' = file /\ seen' = seen]_vars

\* writeCache has returned nil in a limiter whose map is empty, over a state
\* file that holds the snapshot of an earlier map.
C14_Witness ==
    /\ up /\ statefile # "" /\ seen = EmptyMap /\ cpc = "idle"
    /\ writeErr = "nil"
    /\ file.exists /\ Unmarshal(file.data, EmptyMap) # EmptyMap

\* A step in which scrub has run, and a step in which the gauge was set anew.
ScrubStep == scrubber = "scrub" /\ scrubber' = "run"
GaugeStep == gauge' # gauge

\* The three goroutines of Configure have returned.
AllDone == cacher = "done" /\ scrubber = "done" /\ prom = "done"

\* C15 as stated: once ctx.Done() is closed no scrub runs and the gauge is
\* not set any more, the cacher returns only from the writeCache it called on
\* ctx.Done(), and the three goroutines come to return.
C15_ShutdownProtocol ==
    /\ [][cancelled => (~ScrubStep /\ ~GaugeStep)]_vars
    /\ [][(cacher # "done" /\ cacher' = "done") => cacher = "flush"]_vars
    /\ (cancelled ~> AllDone)

\* C15: every goroutine leaves through the ctx.Done() case of its select and
\* does nothing after.  The cacher takes that case only once ctx.Done() is
\* closed, then makes one writeCache call and returns as that call returns;
\* the scrubber and promUpdater return in the step that takes the case,
\* which neither touches the map nor sets the gauge; a goroutine that has
\* returned takes no step; and once ctx.Done() is closed the three come to
\* return.  (A tick that is ready together with ctx.Done() may be served
\* first.)
C15_ShutdownBranches ==
    /\ [][/\ (cacher # "flush" /\ cacher' = "flush") => (cancelled /\ cpc = "idle")
          /\ (cacher # "done" /\ cacher' = "done")
               => (cacher = "flush" /\ cpc' = "idle" /\ writeErr' \in {"nil", "err"})
          /\ (cacher = "flush" /\ cpc = "idle") => cacher' \in {"flush", "done"}
          /\ cacher = "done" => (cacher' = "done" /\ ~WriteCacheStep)
          /\ (scrubber # "done" /\ scrubber' = "done")
               => (cancelled /\ scrubber = "run" /\ seen' = seen)
          /\ scrubber = "done"
               => (scrubber' = "done" /\ DOMAIN seen \subseteq DOMAIN seen')
          /\ (prom # "done" /\ prom' = "done") => (cancelled /\ gauge' = gauge)
          /\ prom = "done" => (prom' = "done" /\ gauge' = gauge)]_vars
    /\ (cancelled ~> AllDone)

\* After the cancellation the three goroutines have returned, the last
\* writeCache having renamed a snapshot of the map into place.
C15_Witness ==
    /\ cancelled /\ AllDone
    /\ seen # EmptyMap /\ writeErr = "nil"
    /\ file = FileOf(Marshal(seen))

\* C16: a scrub at time now deletes every entry whose timestamp is earlier
\* than now - age - 10 minutes and no other entry, and the entries it keeps
\* keep their timestamps.
C16_ScrubRemovesExactlyStale ==
    [][ScrubStep
       => /\ DOMAIN seen' = {k \in DOMAIN seen : seen[k] >= now - age - TenMinutes}
          /\ \A k \in DOMAIN seen' : seen'[k] = seen[k]]_vars

\* The entry of "a" is gone from the map of a limiter that has not died since
\* "a" was recorded, and the entry of the empty string, recorded later, is
\* still there with the time of its record.
C16_Witness ==
    /\ up /\ "a" \in DOMAIN lastRec /\ "a" \notin DOMAIN seen
    /\ "" \in DOMAIN seen /\ seen[""] > lastRec["a"]

\* A step that reads or writes m.seen in the critical section of a call, of
\* scrub or of promUpdater.
MapStep ==
    \/ seen' # seen
    \/ gauge' # gauge
    \/ ScrubStep
    \/ \E w \in Workers : Decides(w) /\ value'[w] # ""

\* C17: f runs outside m.mu.  Nobody but a writeCache in progress holds the
\* lock from one step to the next, so while a call is inside f and no
\* writeCache is in progress the lock is free: scrub, promUpdater, writeCache
\* and the decision and record of any other call can take it; and a step
\* that works on the map under the lock is taken only when no writeCache
\* holds it.
C17_CallbackOutsideLock ==
    /\ [](/\ mu \in {"free", "cacher"}
          /\ (mu = "cacher") <=> (cpc # "idle")
          /\ \A w \in Workers :
                (pc[w] = "callback" /\ cpc = "idle")
                => /\ scrubber = "scrub" => ENABLED Scrub
                   /\ ENABLED PromUpdate
                   /\ ENABLED (WriteCacheEmpty \/ WriteCacheMarshal)
                   /\ \A o \in Workers \ {w} :
                         /\ pc[o] = "idle" => ENABLED Enter(o, "a")
                         /\ pc[o] = "record" => ENABLED Record(o))
    /\ [][MapStep => mu = "free"]_vars

\* A call for "a" is inside f while the cacher, which took the lock after the
\* decision of that call, is in writeCache, and another call waits to record.
C17_Witness ==
    \E w \in Workers, o \in Workers :
        /\ pc[w] = "callback" /\ value[w] = "a" /\ ~process[w]
        /\ mu = "cacher" /\ content = Marshal(seen) /\ "a" \in DOMAIN seen
        /\ pc[o] = "record"

\* A step in which the ProcessAndRecord call of worker w returns.
Returns(w) == up' /\ pc[w] # "idle" /\ pc'[w] = "idle"

\* C18: a call whose f returned an error returns that error and adds one to
\* errCtr; a call whose f returned nil returns nil and leaves errCtr as it
\* was.
C18_CallbackErrorsCounted ==
    [][\A w \in Workers :
          Returns(w)
          => IF fres'[w] = "err"
             THEN ret'[w] = "err" /\ errCtr' = errCtr + 1
             ELSE ret'[w] = "nil" /\ errCtr' = errCtr]_vars

\* The same with a key configured.
CallbackErrorsCountedWithKey ==
    [][\A w \in Workers :
          (Returns(w) /\ key # "")
          => IF fres'[w] = "err"
             THEN ret'[w] = "err" /\ errCtr' = errCtr + 1
             ELSE ret'[w] = "nil" /\ errCtr' = errCtr]_vars

\* C19: no entry of the map carries a timestamp later than the clock, whatever
\* was loaded, recorded, scrubbed and written so far.
C19_NoFutureTimestamps == \A k \in DOMAIN seen : seen[k] <= now

\* A limiter that has read its state file holds an entry that carries the
\* present time and an entry of an earlier time.
C19_Witness ==
    /\ up /\ statefile # "" /\ file.exists /\ readErr = "nil"
    /\ \E k \in DOMAIN seen : seen[k] = now
    /\ \E k \in DOMAIN seen : seen[k] < now

\* The entry of v in m still suppresses v at the time clock.
Suppresses(m, v, clock, a) == v # "" /\ v \in DOMAIN m /\ clock - m[v] <= a

\* C20: scrubbing is invisible to decisions.  Every entry a scrub deletes,
\* and every entry of the state file that readCache does not keep, is older
\* than the window, so the values suppressed after the step are the values
\* that were suppressed by the map, or by the file, before it.
C20_ScrubInvisibleToDecisions ==
    [][/\ ScrubStep
          => /\ \A k \in DOMAIN seen \ DOMAIN seen' : now - seen[k] > age
             /\ \A v \in Keys :
                   Suppresses(seen', v, now, age) <=> Suppresses(seen, v, now, age)
       /\ (~up /\ up' /\ readErr' = "nil" /\ statefile # "")
          => LET stored == Unmarshal(file.data, EmptyMap)
             IN /\ \A k \in DOMAIN stored \ DOMAIN seen' : now - stored[k] > age
                /\ \A v \in Keys :
                      Suppresses(seen', v, now, age) <=> Suppresses(stored, v, now, age)]_vars

\* The state file of a limiter that has read it holds an entry of "a", and
\* the map holds none: it was not kept by readCache or a scrub deleted it.
C20_Witness ==
    /\ up /\ statefile # "" /\ file.exists /\ readErr = "nil"
    /\ ValidJSON(file.data)
    /\ "a" \in DOMAIN Unmarshal(file.data, EmptyMap)
    /\ "a" \notin DOMAIN seen

====
